---- MODULE Spec2Model ----
(***************************************************************************)
(* Identity and admin-verification subsystem of the complaint-box backend. *)
(*                                                                         *)
(* The state is the content of the MongoDB collections (Student, Faculty,  *)
(* Admin, VerificationCode), the process environment (JWT_SECRET), the     *)
(* wall clock, and the requests that are suspended at an await.  Every     *)
(* route handler is an action (or, where requests race, one action per     *)
(* database round trip).  History variables (tokens, lastSet, verified,    *)
(* sendLog, issued, spent, deleted, resp, result) record what was answered *)
(* and are never read by the handlers.                                     *)
(***************************************************************************)
EXTENDS Integers, Sequences, FiniteSets, TLC

\* ------------------------------------------------------------------ bounds
\* Identities ever created (ObjectIds handed out).
MaxUsers == 2
\* send-code requests that reach the ledger.
MaxSends == 2
\* Clock advances.
MaxTicks == 2
\* Complaints ever created.
MaxComplaints == 2

\* ------------------------------------------------------- program constants
\* 10 * 60 * 1000 ms: life time of a verification code.
CodeTtlMs == 600000
\* isLength({ min: 6 }) on passwords.
MinPasswordLen == 6
\* isLength({ min: 3 }) on usernames.
MinUsernameLen == 3

\* ------------------------------------------------------------ input values
Roles == {"student", "faculty", "admin"}

\* A body field that is not sent (undefined in JavaScript).
Absent == "<absent>"

\* createAdmin.ts: the administrator the script creates.
AdminUsername == "sahil"
AdminEmail == "sahilkadam9195@gmail.com"
AdminPassword == "Admin@12345"

RawUsernames == {"amy", "AMY", "sahil"}
RawEmails == {"amy@x.com", "Amy@X.com", "sahilkadam9195@gmail.com"}
Passwords == {"Admin@12345", "secret2"}
RawPasswords == Passwords \cup {"short"}
RawRoles == Roles \cup {"root"}
Salts == {"salt1"}
SecretValues == {Absent, "k3y"}

\* String.prototype.toLowerCase on the strings above.
ToLower(s) ==
    CASE s = "AMY" -> "amy"
      [] s = "Amy@X.com" -> "amy@x.com"
      [] s = "Sahilkadam9195@Gmail.com" -> "sahilkadam9195@gmail.com"
      [] OTHER -> s

\* express-validator isEmail() on the strings above.
isEmail(s) ==
    s \in {"amy@x.com", "Amy@X.com", "sahilkadam9195@gmail.com",
           "Sahilkadam9195@Gmail.com"}

\* bcrypt.hash(plain, salt): the salt is part of the hash string.
bcryptHash(plain, salt) == "$2a$10$" \o salt \o "$" \o plain

\* bcrypt.compare(candidate, stored): re-hash the candidate with the salt the
\* stored string carries; a stored string that is no hash compares false.
bcryptCompare(candidate, stored) ==
    \E s \in Salts : bcryptHash(candidate, s) = stored

VARIABLES
    jwtSecretEnv,   \* process.env.JWT_SECRET, Absent when unset
    coll,           \* coll[r]: the documents of the collection of role r
    nextId,         \* next ObjectId
    pending,        \* pending[p]: the request of client p suspended at an await
    ledger,         \* VerificationCode collection, in insertion order
    now,            \* Date.now(), ms
    ticks,          \* clock advances so far
    sends,          \* send-code requests that reached the ledger so far
    tokens,         \* history: tokens handed out in responses
    lastSet,        \* history: lastSet[id] = plaintext last set as id's password
    verified,       \* history: emails for which verify-code has succeeded
    sendLog,        \* history: completed send-code requests, in completion order
    issued,         \* history: records stored by send-code
    spent,          \* history: <<email, code>> verified, no send-code begun since
    complaints,     \* Complaint collection
    nextCid,        \* next ObjectId of a complaint
    deleted,        \* history: ids whose DELETE /users/:id has been answered 200
    result,         \* history: result[p] = outcome of p's last completed signup
    resp            \* history: the last response sent

vars == << jwtSecretEnv, coll, nextId, pending, ledger, now, ticks, sends,
           tokens, lastSet, verified, sendLog, issued, spent, complaints, nextCid,
           deleted, result, resp >>

idVars == << jwtSecretEnv, coll, nextId, tokens, lastSet >>
codeVars == << ledger, now, ticks, sends, verified, sendLog, issued, spent >>
caseVars == << complaints, nextCid, deleted >>

Clients == {"c1", "c2"}
Idle == [op |-> "idle"]

NoToken == [userId |-> 0, role |-> "none", key |-> "none"]
NoUser == [id |-> 0]
NoResult == [op |-> "none"]

AllDocs == coll["student"] \cup coll["faculty"] \cup coll["admin"]

\* A projection that leaves the document whole.
KeepPassword(d) == d

\* toObject() followed by delete obj.password, and .select('-password').
StripPassword(d) == [f \in (DOMAIN d) \ {"password"} |-> d[f]]

\* A response, with the request it answers.
Response(op, req, status, error, token, user) ==
    [op |-> op, req |-> req, status |-> status, error |-> error,
     token |-> token, user |-> user]

\* --------------------------------------------------------------- the store
NoDoc == [id |-> 0]

\* Model.findById(id) on the collection of role r.
findById(r, id) ==
    IF \E d \in coll[r] : d.id = id
    THEN CHOOSE d \in coll[r] : d.id = id
    ELSE NoDoc

\* Model.findOne({ username }) on the collection of role r.
findOneByUsername(r, uname) ==
    IF \E d \in coll[r] : d.username = uname
    THEN CHOOSE d \in coll[r] : d.username = uname
    ELSE NoDoc

\* Model.findOne({ email }) on the collection of role r.
findOneByEmail(r, email) ==
    IF \E d \in coll[r] : d.email = email
    THEN CHOOSE d \in coll[r] : d.email = email
    ELSE NoDoc

\* The unique indexes on email and on username that each schema declares: a
\* write that would leave two documents of collection r with the same email or
\* the same username fails with E11000.  (Requests are taken to carry
\* phoneNumber, studentId and rollNumber values of their own, so that the
\* unique sparse indexes on those paths never refuse a write.)
DuplicateKey(r, d) ==
    \E o \in coll[r] :
        /\ o.id # d.id
        /\ (o.email = d.email \/ o.username = d.username)

\* ------------------------------------------------------------ userService
findUserById(id) ==
    IF findById("student", id) # NoDoc
    THEN [user |-> findById("student", id), collection |-> "student"]
    ELSE IF findById("faculty", id) # NoDoc
    THEN [user |-> findById("faculty", id), collection |-> "faculty"]
    ELSE IF findById("admin", id) # NoDoc
    THEN [user |-> findById("admin", id), collection |-> "admin"]
    ELSE [user |-> NoDoc, collection |-> "none"]

\* A lookup that goes on to the other collections when the role's own has no
\* such username.
findUserForLoginAnyVariant(username, role) ==
    LET uname == ToLower(username)
        own == IF role \in {"faculty", "admin"} THEN role ELSE "student"
        hits == { r \in Roles : findOneByUsername(r, uname) # NoDoc }
        r == IF own \in hits \/ hits = {} THEN own ELSE CHOOSE x \in hits : TRUE
    IN  [user |-> findOneByUsername(r, uname), collection |-> r]

findUserForLogin(username, role) ==
    LET uname == ToLower(username) IN
    IF role = "faculty"
    THEN [user |-> findOneByUsername("faculty", uname), collection |-> "faculty"]
    ELSE IF role = "admin"
    THEN [user |-> findOneByUsername("admin", uname), collection |-> "admin"]
    ELSE [user |-> findOneByUsername("student", uname), collection |-> "student"]

\* A lookup that finds the email in whichever collection has it.
findUserByEmailAnyVariant(email, role) ==
    LET emailLower == ToLower(email)
        hits == { r \in Roles : findOneByEmail(r, emailLower) # NoDoc }
        r == IF role \in hits \/ hits = {} THEN role ELSE CHOOSE x \in hits : TRUE
    IN  [user |-> findOneByEmail(r, emailLower), collection |-> r]

\* Every caller passes role 'admin'.
findUserByEmail(email, role) ==
    LET emailLower == ToLower(email) IN
    IF role = "admin"
    THEN [user |-> findOneByEmail("admin", emailLower), collection |-> "admin"]
    ELSE IF role = "faculty"
    THEN [user |-> findOneByEmail("faculty", emailLower), collection |-> "faculty"]
    ELSE [user |-> findOneByEmail("student", emailLower), collection |-> "student"]

\* A pre-check that looks at emails only.
emailExistsOnly(username, email) ==
    [usernameExists |-> FALSE,
     emailExists |-> \E r \in Roles : findOneByEmail(r, ToLower(email)) # NoDoc]

usernameOrEmailExists(username, email) ==
    LET uname == ToLower(username)
        emailLower == ToLower(email)
    IN  [usernameExists |-> \E r \in Roles : findOneByUsername(r, uname) # NoDoc,
         emailExists |-> \E r \in Roles : findOneByEmail(r, emailLower) # NoDoc]

\* The collection createUserByRole writes to.
TargetCollection(role) ==
    IF role = "faculty" THEN "faculty"
    ELSE IF role = "admin" THEN "admin"
    ELSE "student"

\* new Model(data) followed by the pre('save') hook: the document that
\* createUserByRole saves.  Paths a schema does not declare are dropped.
NewDocument(id, data, salt) ==
    LET r == TargetCollection(data.role) IN
    [id |-> id,
     username |-> ToLower(data.username),
     email |-> ToLower(data.email),
     password |-> bcryptHash(data.password, salt),
     role |-> r]

\* findByIdAndUpdate(id, updateData): $set of the given paths, cast by the
\* schema (lowercase setters); no save middleware runs.
ApplyUpdate(d, updateData) ==
    [d EXCEPT
        !.email = IF updateData.email = Absent THEN @ ELSE ToLower(updateData.email),
        !.username = IF updateData.username = Absent THEN @ ELSE ToLower(updateData.username),
        !.password = IF updateData.password = Absent THEN @ ELSE updateData.password]

\* user.comparePassword(candidate).
comparePassword(user, candidate) == bcryptCompare(candidate, user.password)

\* ---------------------------------------------------------------- tokens
\* process.env.JWT_SECRET ?? 'fallback-secret'
SigningSecret == IF jwtSecretEnv # Absent THEN jwtSecretEnv ELSE "fallback-secret"

\* A middleware that ignores the environment.
VerifyingSecretFixed == "fallback-secret"

\* process.env.JWT_SECRET || 'fallback-secret'
VerifyingSecret ==
    IF jwtSecretEnv # Absent /\ jwtSecretEnv # "" THEN jwtSecretEnv ELSE "fallback-secret"

\* jwt.sign({ userId, role }, secret): the signature stands for the key used.
\* The 7 day validity window is longer than any run of the model.
generateToken(userId, role) ==
    [userId |-> userId, role |-> role, key |-> SigningSecret]

\* A middleware that looks the id up in every collection, whatever role the
\* token carries.
authenticateAnyCollection(token) ==
    IF token = NoToken
    THEN [status |-> 401, error |-> "Authentication required", user |-> NoUser]
    ELSE IF token.key # VerifyingSecret
    THEN [status |-> 401, error |-> "Invalid or expired token", user |-> NoUser]
    ELSE IF findUserById(token.userId).user = NoDoc
    THEN [status |-> 401, error |-> "User not found", user |-> NoUser]
    ELSE [status |-> 200, error |-> "",
          user |-> StripPassword(findUserById(token.userId).user)]

\* The middleware: a response 401, or next() with req.user attached.
authenticate(token) ==
    IF token = NoToken
    THEN [status |-> 401, error |-> "Authentication required", user |-> NoUser]
    ELSE IF token.key # VerifyingSecret
    THEN [status |-> 401, error |-> "Invalid or expired token", user |-> NoUser]
    ELSE
        LET user ==
                IF token.role = "faculty" THEN findById("faculty", token.userId)
                ELSE IF token.role = "admin" THEN findById("admin", token.userId)
                ELSE IF token.role = "student" THEN findById("student", token.userId)
                ELSE findUserById(token.userId).user
        IN  IF user = NoDoc
            THEN [status |-> 401, error |-> "User not found", user |-> NoUser]
            ELSE [status |-> 200, error |-> "", user |-> StripPassword(user)]

\* A token signed with a key that is not the server's.
BadToken == [userId |-> 1, role |-> "student", key |-> "guess"]

\* What a client can put in the Authorization header: a token it was sent, a
\* token of its own making, or nothing.
Presentable == tokens \cup {BadToken, NoToken}

\* ------------------------------------------------------------ POST /signup
SignupBodies ==
    { [username |-> u, email |-> e, password |-> w, role |-> r] :
        u \in RawUsernames, e \in RawEmails, w \in Passwords, r \in Roles }
    \cup
    { [username |-> "amy", email |-> "amy@x.com", password |-> "short",
       role |-> "student"],
      [username |-> "amy", email |-> "amy@x.com", password |-> "secret2",
       role |-> "root"] }

ValidSignup(body) ==
    /\ Len(body.username) >= MinUsernameLen
    /\ isEmail(body.email)
    /\ Len(body.password) >= MinPasswordLen
    /\ body.role \in Roles

SignupRequest(body) == [role |-> body.role]

SignupResult(body, outcome, raced) ==
    [op |-> "signup", email |-> ToLower(body.email), role |-> body.role,
     outcome |-> outcome, raced |-> raced]

\* Validation and the pre-check, up to the await of createUserByRole: "" when
\* the request goes on, otherwise the error of the 400 response.  The six
\* findOne of usernameOrEmailExists are taken as one read of the store.
SignupRejection(body) ==
    LET ex == usernameOrEmailExists(body.username, body.email) IN
    IF ~ValidSignup(body) THEN "validation"
    ELSE IF ex.usernameExists THEN "Username already exists"
    ELSE IF ex.emailExists THEN "Email already registered"
    ELSE ""

SignupReject(body) ==
    /\ resp' = Response("signup", SignupRequest(body), 400, SignupRejection(body),
                        NoToken, NoUser)
    /\ UNCHANGED << coll, nextId, tokens, lastSet >>

\* The body as the route hands it to createUserByRole.
SignupData(body) ==
    [body EXCEPT !.username = ToLower(body.username), !.email = ToLower(body.email)]

\* createUserByRole, generateToken and the response.
SignupWrite(data) ==
    \E salt \in Salts :
        LET doc == NewDocument(nextId, data, salt)
            token == generateToken(doc.id, data.role)
        IN  IF DuplicateKey(doc.role, doc)
            THEN \* error.code === 11000
                 /\ resp' = Response("signup", SignupRequest(data), 400,
                                     "Username or email already exists", NoToken, NoUser)
                 /\ UNCHANGED << coll, nextId, tokens, lastSet >>
            ELSE /\ coll' = [coll EXCEPT ![doc.role] = @ \cup {doc}]
                 /\ nextId' = nextId + 1
                 /\ lastSet' = [lastSet EXCEPT ![doc.id] = data.password]
                 /\ tokens' = tokens \cup {token}
                 /\ resp' = Response("signup", SignupRequest(data), 201, "", token,
                                     StripPassword(doc))

\* What SignupWrite answers: the write is refused or the identity is created.
SignupOutcome(data) ==
    IF DuplicateKey(TargetCollection(data.role), NewDocument(nextId, data, "salt1"))
    THEN "duplicate" ELSE "created"

\* The handler run from request to response with no other request in between.
Signup(p, body) ==
    /\ pending[p] = Idle
    /\ nextId <= MaxUsers
    /\ IF SignupRejection(body) # ""
       THEN SignupReject(body)
       ELSE SignupWrite(SignupData(body))
    /\ UNCHANGED << jwtSecretEnv, pending, result, codeVars, caseVars >>

\* The handler up to its await of createUserByRole.
SignupCheck(p, body) ==
    LET \* another signup for the same email is between its pre-check and its write
        rivals == { q \in Clients \ {p} :
                      /\ pending[q].op = "signup"
                      /\ pending[q].data.email = ToLower(body.email) }
    IN  /\ pending[p] = Idle
        /\ nextId <= MaxUsers
        /\ IF SignupRejection(body) # ""
           THEN /\ SignupReject(body)
                /\ result' = [result EXCEPT
                                ![p] = SignupResult(body,
                                           IF ValidSignup(body) THEN "duplicate"
                                           ELSE "invalid", FALSE)]
                /\ UNCHANGED pending
           ELSE /\ pending' =
                    [q \in Clients |->
                        IF q = p
                        THEN [op |-> "signup", data |-> SignupData(body),
                              raced |-> rivals # {}]
                        ELSE IF q \in rivals
                        THEN [pending[q] EXCEPT !.raced = TRUE]
                        ELSE pending[q]]
                /\ UNCHANGED << resp, result, coll, nextId, tokens, lastSet >>
        /\ UNCHANGED << jwtSecretEnv, codeVars, caseVars >>

\* The handler from the await of createUserByRole on.
SignupCreate(p) ==
    /\ pending[p].op = "signup"
    /\ nextId <= MaxUsers
    /\ SignupWrite(pending[p].data)
    /\ result' = [result EXCEPT
                    ![p] = SignupResult(pending[p].data, SignupOutcome(pending[p].data),
                                        pending[p].raced)]
    /\ pending' = [pending EXCEPT ![p] = Idle]
    /\ UNCHANGED << jwtSecretEnv, codeVars, caseVars >>

\* ------------------------------------------------------------- POST /login
\* A handler that tells an unknown username from a wrong password.
LoginResponseTelling(username, password, role) ==
    LET req == [username |-> ToLower(username), role |-> role]
        found == findUserForLogin(username, role)
    IN  IF role \notin Roles
        THEN Response("login", req, 400, "validation", NoToken, NoUser)
        ELSE IF found.user = NoDoc
        THEN Response("login", req, 404, "User not found", NoToken, NoUser)
        ELSE IF ~comparePassword(found.user, password)
        THEN Response("login", req, 401, "Invalid credentials", NoToken, NoUser)
        ELSE Response("login", req, 200, "", generateToken(found.user.id, role),
                      StripPassword(found.user))

\* The response of the handler to a request, in the current state.
LoginResponse(username, password, role) ==
    LET req == [username |-> ToLower(username), role |-> role]
        found == findUserForLogin(username, role)
    IN  IF role \notin Roles
        THEN Response("login", req, 400, "validation", NoToken, NoUser)
        ELSE IF found.user = NoDoc
        THEN Response("login", req, 401, "Invalid credentials", NoToken, NoUser)
        ELSE IF ~comparePassword(found.user, password)
        THEN Response("login", req, 401, "Invalid credentials", NoToken, NoUser)
        ELSE Response("login", req, 200, "", generateToken(found.user.id, role),
                      StripPassword(found.user))

Login(username, password, role) ==
    /\ resp' = LoginResponse(username, password, role)
    /\ tokens' = tokens \cup ({resp'.token} \ {NoToken})
    /\ UNCHANGED << jwtSecretEnv, coll, nextId, lastSet, pending, result, codeVars, caseVars >>

\* ------------------------------------------------------- POST /admin/login
AdminLoginResponse(email, password) ==
    LET req == [email |-> ToLower(email)]
        found == findUserByEmail(email, "admin")
    IN  IF ~isEmail(email)
        THEN Response("adminLogin", req, 400, "validation", NoToken, NoUser)
        ELSE IF found.user = NoDoc
        THEN Response("adminLogin", req, 401, "Invalid credentials", NoToken, NoUser)
        ELSE IF ~comparePassword(found.user, password)
        THEN Response("adminLogin", req, 401, "Invalid credentials", NoToken, NoUser)
        ELSE Response("adminLogin", req, 200, "", generateToken(found.user.id, "admin"),
                      StripPassword(found.user))

AdminLogin(email, password) ==
    /\ resp' = AdminLoginResponse(email, password)
    /\ tokens' = tokens \cup ({resp'.token} \ {NoToken})
    /\ UNCHANGED << jwtSecretEnv, coll, nextId, lastSet, pending, result, codeVars, caseVars >>

\* ---------------------------------------------------------------- GET /me
Me(token) ==
    LET auth == authenticate(token) IN
    /\ resp' = Response("me", NoResult, auth.status, auth.error,
                        NoToken, auth.user)
    /\ UNCHANGED << idVars, caseVars, pending, result, codeVars >>

\* ------------------------------------------- PUT /profile, PUT /users/:id
Patches ==
    LET none == [email |-> Absent, password |-> Absent, username |-> Absent,
                 role |-> Absent]
    IN  { [none EXCEPT !.password = "secret2"],
          [none EXCEPT !.email = "Amy@X.com"],
          [none EXCEPT !.email = "sahilkadam9195@gmail.com"],
          [none EXCEPT !.username = "sahil"],
          [none EXCEPT !.role = "admin"],
          [none EXCEPT !.role = "student", !.password = "secret2"] }

\* A test that lets every body through.
roleGivenNever(updateData) == FALSE

\* if (updateData.role)
roleGiven(updateData) == updateData.role # Absent

\* The call of updateUserById by a route and the route's response to it.
updateUserById(op, req, id, updateData) ==
    LET found == findUserById(id)
        updated == ApplyUpdate(found.user, updateData)
    IN  IF roleGiven(updateData)
        THEN \* throw new Error('Changing role is not supported ...')
             /\ resp' = Response(op, req, 500, "Changing role is not supported",
                                 NoToken, NoUser)
             /\ UNCHANGED << coll, lastSet >>
        ELSE IF found.user = NoDoc
        THEN /\ resp' = Response(op, req, 404, "User not found", NoToken, NoUser)
             /\ UNCHANGED << coll, lastSet >>
        ELSE IF updateData.role \notin {Absent, found.collection}
        THEN \* runValidators: the enum of the schema's role path
             /\ resp' = Response(op, req, 500, "Validation failed", NoToken, NoUser)
             /\ UNCHANGED << coll, lastSet >>
        ELSE IF DuplicateKey(found.collection, updated)
        THEN \* E11000 thrown by findByIdAndUpdate
             /\ resp' = Response(op, req, 500, "E11000 duplicate key", NoToken, NoUser)
             /\ UNCHANGED << coll, lastSet >>
        ELSE /\ coll' = [coll EXCEPT
                           ![found.collection] = (@ \ {found.user}) \cup {updated}]
             /\ lastSet' = IF updateData.password = Absent THEN lastSet
                           ELSE [lastSet EXCEPT ![id] = updateData.password]
             /\ resp' = Response(op, req, 200, "", NoToken, StripPassword(updated))

UpdateProfile(token, patch) ==
    LET auth == authenticate(token)
        req == [id |-> auth.user.id, role |-> patch.role]
        deny(status, error) ==
            /\ resp' = Response("profile", req, status, error, NoToken, NoUser)
            /\ UNCHANGED << coll, lastSet >>
    IN  /\ IF auth.status # 200 THEN deny(auth.status, auth.error)
           ELSE IF \/ patch.email # Absent /\ ~isEmail(patch.email)
                   \/ patch.password # Absent /\ Len(patch.password) < MinPasswordLen
           THEN deny(400, "validation")
           ELSE IF roleGiven(patch)
           THEN deny(400, "Changing role via profile update is not supported")
           ELSE updateUserById("profile", req, auth.user.id, patch)
        /\ UNCHANGED << jwtSecretEnv, nextId, tokens, pending, result, codeVars, caseVars >>

UpdateUser(token, id, patch) ==
    LET auth == authenticate(token)
        req == [id |-> id, role |-> patch.role]
        deny(status, error) ==
            /\ resp' = Response("userUpdate", req, status, error, NoToken, NoUser)
            /\ UNCHANGED << coll, lastSet >>
    IN  /\ IF auth.status # 200 THEN deny(auth.status, auth.error)
           ELSE IF auth.user.role # "faculty" THEN deny(403, "Access denied")
           ELSE IF \/ patch.email # Absent /\ ~isEmail(patch.email)
                   \/ patch.role \notin {Absent, "student", "faculty"}
           THEN deny(400, "validation")
           ELSE IF roleGiven(patch)
           THEN deny(400, "Changing role via update is not supported")
           ELSE updateUserById("userUpdate", req, id, patch)
        /\ UNCHANGED << jwtSecretEnv, nextId, tokens, pending, result, codeVars, caseVars >>

\* -------------------------------------------------- POST /change-password
ChangePassword(token, currentPassword, newPassword) ==
    LET auth == authenticate(token)
        req == [id |-> auth.user.id, current |-> currentPassword]
        found == findUserById(auth.user.id)
        deny(status, error) ==
            /\ resp' = Response("changePassword", req, status, error, NoToken, NoUser)
            /\ UNCHANGED << coll, lastSet >>
    IN  /\ IF auth.status # 200 THEN deny(auth.status, auth.error)
           ELSE IF Len(newPassword) < MinPasswordLen THEN deny(400, "validation")
           ELSE IF found.user = NoDoc THEN deny(404, "User not found")
           ELSE IF ~comparePassword(found.user, currentPassword)
           THEN deny(401, "Current password is incorrect")
           ELSE \E salt \in Salts :
                \* user.password = newPassword; save() hashes a modified password
                LET saved == [found.user EXCEPT
                                !.password = IF newPassword = @ THEN @
                                             ELSE bcryptHash(newPassword, salt)]
                IN  /\ coll' = [coll EXCEPT
                                  ![found.collection] = (@ \ {found.user}) \cup {saved}]
                    /\ lastSet' = [lastSet EXCEPT ![saved.id] = newPassword]
                    /\ resp' = Response("changePassword", req, 200,
                                        "Password changed successfully", NoToken, NoUser)
        /\ UNCHANGED << jwtSecretEnv, nextId, tokens, pending, result, codeVars, caseVars >>

\* ------------------------------------------- GET /users/:id, GET /users
GetUser(token, id) ==
    LET auth == authenticate(token)
        req == [id |-> id]
        found == findUserById(id)
    IN  /\ resp' = IF auth.status # 200
                   THEN Response("user", req, auth.status, auth.error, NoToken, NoUser)
                   ELSE IF found.user = NoDoc
                   THEN Response("user", req, 404, "User not found", NoToken, NoUser)
                   ELSE IF auth.user.role = "student" /\ auth.user.id # id
                   THEN Response("user", req, 403, "Access denied", NoToken, NoUser)
                   ELSE Response("user", req, 200, "", NoToken, StripPassword(found.user))
        /\ UNCHANGED << idVars, caseVars, pending, result, codeVars >>

\* listUsers(role): one collection, or the three merged.  A page holds more
\* users than a run creates.
listUsers(role) ==
    IF role \in Roles
    THEN { StripPassword(d) : d \in coll[role] }
    ELSE { StripPassword(d) : d \in AllDocs }

ListUsers(token, role) ==
    LET auth == authenticate(token)
        req == [role |-> role]
    IN  /\ resp' = IF auth.status # 200
                   THEN Response("userList", req, auth.status, auth.error, NoToken, NoUser)
                   ELSE IF auth.user.role \notin {"faculty", "admin"}
                   THEN Response("userList", req, 403, "Access denied", NoToken, NoUser)
                   ELSE Response("userList", req, 200, "", NoToken,
                                 [id |-> 0, users |-> listUsers(role)])
        /\ UNCHANGED << idVars, caseVars, pending, result, codeVars >>

\* ------------------------------------------------- scripts/createAdmin.ts
adminData ==
    [username |-> AdminUsername, email |-> AdminEmail, password |-> AdminPassword,
     role |-> "admin"]

\* The script run to its end; it exits without a write when the admin exists
\* or the save is refused.
CreateAdmin ==
    /\ nextId <= MaxUsers
    /\ findOneByUsername("admin", AdminUsername) = NoDoc
    /\ findOneByEmail("admin", AdminEmail) = NoDoc
    /\ \E salt \in Salts :
        LET doc == NewDocument(nextId, adminData, salt) IN
        /\ ~DuplicateKey("admin", doc)
        /\ coll' = [coll EXCEPT !["admin"] = @ \cup {doc}]
        /\ lastSet' = [lastSet EXCEPT ![doc.id] = AdminPassword]
    /\ nextId' = nextId + 1
    /\ UNCHANGED << jwtSecretEnv, tokens, pending, result, resp, codeVars, caseVars >>

\* ------------------------------------------------ the VerificationCode ledger
\* Math.random() returns a multiple of 1/RandomResolution in [0, 1); a draw is
\* the numerator.
RandomResolution == 1000

CodeBase == 100000
CodeSpan == 900000

\* Math.floor(100000 + Math.random() * 900000)
codeNumber(draw) == CodeBase + ((draw * CodeSpan) \div RandomResolution)

DigitChar == << "0", "1", "2", "3", "4", "5", "6", "7", "8", "9" >>

\* The decimal digits Number.prototype.toString() writes, most significant
\* first: as many as the number has, with no padding.
RECURSIVE digits(_)
digits(n) ==
    IF n < 10 THEN << DigitChar[n + 1] >>
    ELSE Append(digits(n \div 10), DigitChar[(n % 10) + 1])

RECURSIVE join(_)
join(ds) == IF ds = << >> THEN "" ELSE Head(ds) \o join(Tail(ds))

toString(n) == join(digits(n))

\* const code = Math.floor(100000 + Math.random() * 900000).toString()
generateCode(draw) == toString(codeNumber(draw))

\* The draws of the requests of a run.
RandomDraws == {425, 0}

Codes == { generateCode(draw) : draw \in RandomDraws }

\* Emails sent to send-code and verify-code: the administrator's as stored and
\* with capitals, and an address no administrator has.
CodeEmails == {AdminEmail, "Sahilkadam9195@Gmail.com", "amy@x.com"}

NoRecord == [email |-> "", code |-> "", expiresAt |-> 0]

MsgNotFound == "No verification code found. Please request a new code."
MsgExpired == "Verification code has expired. Please request a new code."
MsgMismatch == "Invalid verification code"

\* Positions of the records a filter { email } matches; the schema lowercases
\* the email of a filter as it does the email of a document.
matching(l, email) == { i \in 1..Len(l) : l[i].email = ToLower(email) }

first(l, email) == CHOOSE i \in matching(l, email) : \A j \in matching(l, email) : i <= j

without(l, i) == [j \in 1..(Len(l) - 1) |-> IF j < i THEN l[j] ELSE l[j + 1]]

\* VerificationCode.findOne({ email }): the first match in insertion order.
findOne(l, email) ==
    IF matching(l, email) = {} THEN NoRecord ELSE l[first(l, email)]

\* VerificationCode.deleteOne({ email }): removes the first match, if any.
deleteOne(l, email) ==
    IF matching(l, email) = {} THEN l ELSE without(l, first(l, email))

\* A model whose pre('save') hook removes nothing.
deleteNone(l, email) == l

\* The pre('save') hook: deleteMany({ email: this.email }).
deleteMany(l, email) == SelectSeq(l, LAMBDA r : r.email # ToLower(email))

\* A handler that never finds a record expired.
isExpiredNever(record, t) == FALSE

\* A handler that finds every record expired.
isExpiredAlways(record, t) == TRUE

\* new Date() > storedCode.expiresAt
isExpired(record, t) == t > record.expiresAt

CodeResponse(op, req, status, error) == Response(op, req, status, error, NoToken, NoUser)

\* PATCH /admin/send-code up to the call of VerificationCode.create: validation,
\* the admin lookup, the code and its expiry.
SendCodeStart(p, email) ==
    LET req == [email |-> ToLower(email)] IN
    /\ pending[p] = Idle
    /\ IF ~isEmail(email)
       THEN /\ resp' = CodeResponse("sendCode", req, 400, "validation")
            /\ UNCHANGED << pending, sends, spent >>
       ELSE IF findUserByEmail(email, "admin").user = NoDoc
       THEN /\ resp' = CodeResponse("sendCode", req, 404, "Admin account not found")
            /\ UNCHANGED << pending, sends, spent >>
       ELSE /\ sends < MaxSends
            /\ \E code \in Codes :
                 pending' = [pending EXCEPT
                               ![p] = [op |-> "sendCode", pc |-> "deleteMany",
                                       record |-> [email |-> ToLower(email),
                                                   code |-> code,
                                                   expiresAt |-> now + CodeTtlMs]]]
            /\ sends' = sends + 1
            /\ spent' = { x \in spent : x[1] # ToLower(email) }
            /\ UNCHANGED resp
    /\ UNCHANGED << idVars, caseVars, result, ledger, now, ticks, verified, sendLog, issued >>

\* The pre('save') hook of the new record.
SendCodeDeleteMany(p) ==
    /\ pending[p].op = "sendCode"
    /\ pending[p].pc = "deleteMany"
    /\ ledger' = deleteMany(ledger, pending[p].record.email)
    /\ pending' = [pending EXCEPT ![p].pc = "insert"]
    /\ UNCHANGED << idVars, caseVars, result, resp, now, ticks, sends, verified, sendLog,
                    issued, spent >>

\* The insert of the new record.
SendCodeInsert(p) ==
    /\ pending[p].op = "sendCode"
    /\ pending[p].pc = "insert"
    /\ ledger' = Append(ledger, pending[p].record)
    /\ issued' = issued \cup {pending[p].record}
    /\ pending' = [pending EXCEPT ![p].pc = "mail"]
    /\ UNCHANGED << idVars, caseVars, result, resp, now, ticks, sends, verified, sendLog, spent >>

\* What the transport did with the mail.
MailOutcomes == {"sent", "failed"}

\* A mailer whose promise rejects when the transport fails.
sendEmailRejecting(outcome) == IF outcome = "failed" THEN "rejected" ELSE "resolved"

\* sendEmail: an error result is logged, an exception is caught and logged,
\* and the promise resolves either way.
sendEmail(outcome) == "resolved"

\* The handler resumes when the promise of sendEmail settles, and then
\* responds: 200, or 500 from the catch block if the promise rejected.
SendCodeRespond(p) ==
    /\ pending[p].op = "sendCode"
    /\ pending[p].pc = "mail"
    /\ \E outcome \in MailOutcomes :
         LET req == [email |-> pending[p].record.email, mail |-> outcome] IN
         resp' = IF sendEmail(outcome) = "rejected"
                 THEN CodeResponse("sendCode", req, 500, "Failed to send verification code")
                 ELSE CodeResponse("sendCode", req, 200, "Verification code sent successfully")
    /\ sendLog' = Append(sendLog, [email |-> pending[p].record.email,
                                   code |-> pending[p].record.code,
                                   mail |-> resp'.req.mail])
    /\ pending' = [pending EXCEPT ![p] = Idle]
    /\ UNCHANGED << idVars, caseVars, result, ledger, now, ticks, sends, verified, issued, spent >>

\* PATCH /admin/verify-code up to the first deleteOne: validation, findOne, the
\* expiry test and the comparison.
VerifyCodeFind(p, email, code) ==
    LET req == [email |-> ToLower(email), code |-> code, at |-> now,
                replay |-> << ToLower(email), code >> \in spent]
        storedCode == findOne(ledger, email)
    IN  /\ pending[p] = Idle
        /\ IF ~isEmail(email) \/ code = ""
           THEN /\ resp' = CodeResponse("verifyCode", req, 400, "validation")
                /\ UNCHANGED pending
           ELSE IF storedCode = NoRecord
           THEN /\ resp' = CodeResponse("verifyCode", req, 400, MsgNotFound)
                /\ UNCHANGED pending
           ELSE IF isExpired(storedCode, now)
           THEN /\ pending' = [pending EXCEPT
                                 ![p] = [op |-> "verifyCode", req |-> req,
                                         expired |-> TRUE]]
                /\ UNCHANGED resp
           ELSE IF storedCode.code # code
           THEN /\ resp' = CodeResponse("verifyCode", req, 400, MsgMismatch)
                /\ UNCHANGED pending
           ELSE /\ pending' = [pending EXCEPT
                                 ![p] = [op |-> "verifyCode", req |-> req,
                                         expired |-> FALSE]]
                /\ UNCHANGED resp
        /\ UNCHANGED << idVars, caseVars, result, codeVars >>

\* deleteOne({ email }) and the response that follows it.
VerifyCodeDelete(p) ==
    LET req == pending[p].req IN
    /\ pending[p].op = "verifyCode"
    /\ ledger' = deleteOne(ledger, req.email)
    /\ IF pending[p].expired
       THEN /\ resp' = CodeResponse("verifyCode", req, 400, MsgExpired)
            /\ UNCHANGED << verified, spent >>
       ELSE /\ resp' = CodeResponse("verifyCode", req, 200, "Code verified successfully")
            /\ verified' = verified \cup {req.email}
            /\ spent' = IF \E q \in Clients : /\ pending[q].op = "sendCode"
                                              /\ pending[q].record.email = req.email
                        THEN spent
                        ELSE spent \cup {<< req.email, req.code >>}
    /\ pending' = [pending EXCEPT ![p] = Idle]
    /\ UNCHANGED << idVars, caseVars, result, now, ticks, sends, sendLog, issued >>

\* Time passes.
Tick ==
    /\ ticks < MaxTicks
    /\ \E d \in {1, CodeTtlMs} : now' = now + d
    /\ ticks' = ticks + 1
    /\ UNCHANGED << idVars, caseVars, pending, result, resp, ledger, sends, verified, sendLog,
                    issued, spent >>

\* The TTL index on expiresAt (expireAfterSeconds: 0): the server's monitor
\* removes a record whose expiresAt has passed.
TtlMonitor ==
    /\ \E i \in 1..Len(ledger) :
         /\ ledger[i].expiresAt <= now
         /\ ledger' = without(ledger, i)
    /\ UNCHANGED << idVars, caseVars, pending, result, resp, now, ticks, sends, verified,
                    sendLog, issued, spent >>

\* ------------------------------------- DELETE /users/:id, POST /complaints
\* DELETE /users/:id up to its first write: the middleware, findUserById and
\* the test that the caller is the target or a faculty member.
DeleteUserStart(p, token, id) ==
    LET auth == authenticate(token)
        req == [id |-> id]
        found == findUserById(id)
        answer(status, error) ==
            /\ resp' = Response("deleteUser", req, status, error, NoToken, NoUser)
            /\ UNCHANGED pending
    IN  /\ pending[p] = Idle
        /\ IF auth.status # 200 THEN answer(auth.status, auth.error)
           ELSE IF found.user = NoDoc THEN answer(404, "User not found")
           ELSE IF auth.user.role # "faculty" /\ auth.user.id # id
           THEN answer(403, "Access denied")
           ELSE /\ pending' = [pending EXCEPT
                                 ![p] = [op |-> "deleteUser", id |-> id,
                                         collection |-> found.collection,
                                         pc |-> IF found.collection = "student"
                                                THEN "complaints" ELSE "user"]]
                /\ UNCHANGED resp
        /\ UNCHANGED << idVars, caseVars, codeVars, result >>

\* Complaint.deleteMany({ studentId }) for a student.
DeleteUserComplaints(p) ==
    /\ pending[p].op = "deleteUser"
    /\ pending[p].pc = "complaints"
    /\ complaints' = { c \in complaints : c.studentId # pending[p].id }
    /\ pending' = [pending EXCEPT ![p].pc = "user"]
    /\ UNCHANGED << idVars, codeVars, result, resp, nextCid, deleted >>

\* deleteUserById (findUserById, then findByIdAndDelete where it is found)
\* and the 200 response.
DeleteUserIdentity(p) ==
    LET id == pending[p].id
        found == findUserById(id)
    IN  /\ pending[p].op = "deleteUser"
        /\ pending[p].pc = "user"
        /\ coll' = IF found.user = NoDoc THEN coll
                   ELSE [coll EXCEPT ![found.collection] = @ \ {found.user}]
        /\ resp' = Response("deleteUser", [id |-> id], 200,
                            IF pending[p].collection = "student"
                            THEN "User and related complaints deleted successfully"
                            ELSE "Faculty deleted successfully",
                            NoToken, NoUser)
        /\ deleted' = deleted \cup {id}
        /\ pending' = [pending EXCEPT ![p] = Idle]
        /\ UNCHANGED << jwtSecretEnv, nextId, tokens, lastSet, codeVars, result,
                        complaints, nextCid >>

\* POST /complaints up to complaint.save(): authenticate, authorize('student')
\* and the new document, whose studentId is req.user._id.
CreateComplaintStart(p, token) ==
    LET auth == authenticate(token)
        answer(status, error) ==
            /\ resp' = Response("createComplaint", [id |-> auth.user.id], status,
                                error, NoToken, NoUser)
            /\ UNCHANGED pending
    IN  /\ pending[p] = Idle
        /\ IF auth.status # 200 THEN answer(auth.status, auth.error)
           ELSE IF auth.user.role # "student" THEN answer(403, "Access denied")
           ELSE /\ nextCid <= MaxComplaints
                /\ pending' = [pending EXCEPT
                                 ![p] = [op |-> "createComplaint",
                                         studentId |-> auth.user.id]]
                /\ UNCHANGED resp
        /\ UNCHANGED << idVars, caseVars, codeVars, result >>

\* complaint.save(), findById and the 201 response.
CreateComplaintSave(p) ==
    /\ pending[p].op = "createComplaint"
    /\ complaints' = complaints \cup
                       {[id |-> nextCid, studentId |-> pending[p].studentId,
                         title |-> "t1", isRead |-> FALSE, readBy |-> {}]}
    /\ nextCid' = nextCid + 1
    /\ resp' = Response("createComplaint", [id |-> pending[p].studentId], 201, "",
                        NoToken, NoUser)
    /\ pending' = [pending EXCEPT ![p] = Idle]
    /\ UNCHANGED << idVars, codeVars, result, deleted >>

\* ------------------------------------------------- the complaints routes
NoComplaint == [id |-> 0]

\* Complaint.findById(id)
findComplaint(cid) ==
    IF \E c \in complaints : c.id = cid
    THEN CHOOSE c \in complaints : c.id = cid
    ELSE NoComplaint

\* The request as the handler sees it after the middleware.
ComplaintRequest(auth, cid) ==
    [by |-> auth.user.id,
     role |-> IF auth.status = 200 THEN auth.user.role ELSE "none",
     cid |-> cid]

ComplaintResponse(op, req, status, error, found) ==
    Response(op, req, status, error, NoToken, [id |-> 0, complaints |-> found])

\* New titles of PUT /complaints/:id.
Titles == {"t2"}

\* req.user.role === 'student' && complaint.studentId !== req.user._id
notOwner(auth, complaint) ==
    auth.user.role = "student" /\ complaint.studentId # auth.user.id

\* GET /complaints: a student's query carries studentId: req.user._id.
ListComplaints(token) ==
    LET auth == authenticate(token)
        req == ComplaintRequest(auth, 0)
    IN  /\ resp' = IF auth.status # 200
                   THEN ComplaintResponse("complaintList", req, auth.status, auth.error, {})
                   ELSE ComplaintResponse("complaintList", req, 200, "",
                            { c \in complaints :
                                auth.user.role = "student" => c.studentId = auth.user.id })
        /\ UNCHANGED << idVars, caseVars, pending, result, codeVars >>

\* GET /complaints/:id
GetComplaint(token, cid) ==
    LET auth == authenticate(token)
        req == ComplaintRequest(auth, cid)
        complaint == findComplaint(cid)
    IN  /\ resp' = IF auth.status # 200
                   THEN ComplaintResponse("complaintGet", req, auth.status, auth.error, {})
                   ELSE IF complaint = NoComplaint
                   THEN ComplaintResponse("complaintGet", req, 404, "Complaint not found", {})
                   ELSE IF notOwner(auth, complaint)
                   THEN ComplaintResponse("complaintGet", req, 403, "Access denied", {})
                   ELSE ComplaintResponse("complaintGet", req, 200, "", {complaint})
        /\ UNCHANGED << idVars, caseVars, pending, result, codeVars >>

\* PUT /complaints/:id
UpdateComplaint(token, cid, title) ==
    LET auth == authenticate(token)
        req == ComplaintRequest(auth, cid)
        complaint == findComplaint(cid)
        saved == [complaint EXCEPT !.title = title]
        answer(status, error) ==
            /\ resp' = ComplaintResponse("complaintUpdate", req, status, error, {})
            /\ UNCHANGED complaints
    IN  /\ IF auth.status # 200 THEN answer(auth.status, auth.error)
           ELSE IF complaint = NoComplaint THEN answer(404, "Complaint not found")
           ELSE IF notOwner(auth, complaint) THEN answer(403, "Access denied")
           ELSE /\ complaints' = (complaints \ {complaint}) \cup {saved}
                /\ resp' = ComplaintResponse("complaintUpdate", req, 200, "", {saved})
        /\ UNCHANGED << idVars, nextCid, deleted, pending, result, codeVars >>

\* DELETE /complaints/:id
DeleteComplaint(token, cid) ==
    LET auth == authenticate(token)
        req == ComplaintRequest(auth, cid)
        complaint == findComplaint(cid)
        answer(status, error) ==
            /\ resp' = ComplaintResponse("complaintDelete", req, status, error, {})
            /\ UNCHANGED complaints
    IN  /\ IF auth.status # 200 THEN answer(auth.status, auth.error)
           ELSE IF complaint = NoComplaint THEN answer(404, "Complaint not found")
           ELSE IF notOwner(auth, complaint) THEN answer(403, "Access denied")
           ELSE /\ complaints' = complaints \ {complaint}
                /\ resp' = ComplaintResponse("complaintDelete", req, 200,
                                             "Complaint deleted successfully", {})
        /\ UNCHANGED << idVars, nextCid, deleted, pending, result, codeVars >>

\* PATCH /complaints/:id/read: the caller's id is added to readBy, the
\* complaint is saved and returned; the handler tests no ownership.
MarkComplaintRead(token, cid) ==
    LET auth == authenticate(token)
        req == ComplaintRequest(auth, cid)
        complaint == findComplaint(cid)
        saved == [complaint EXCEPT !.readBy = @ \cup {auth.user.id}, !.isRead = TRUE]
        answer(status, error) ==
            /\ resp' = ComplaintResponse("complaintRead", req, status, error, {})
            /\ UNCHANGED complaints
    IN  /\ IF auth.status # 200 THEN answer(auth.status, auth.error)
           ELSE IF complaint = NoComplaint THEN answer(404, "Complaint not found")
           ELSE /\ complaints' = (complaints \ {complaint}) \cup {saved}
                /\ resp' = ComplaintResponse("complaintRead", req, 200,
                                             "Complaint marked as read", {saved})
        /\ UNCHANGED << idVars, nextCid, deleted, pending, result, codeVars >>

\* ------------------------------------------ POST /utils/generate-jwt-secret
JwtMinBytes == 32
JwtMaxBytes == 256
JwtDefaultBytes == 64

\* A value of a JSON body, with its JavaScript type.
undefined == [t |-> "undefined", n |-> 0, s |-> ""]
number(n) == [t |-> "number", n |-> n, s |-> ""]
string(s) == [t |-> "string", n |-> 0, s |-> s]

\* The values of req.body.length of the requests of a run: numbers at and
\* around the two limits, no length, and strings.
JwtLengths ==
    { number(n) : n \in {0, 1, 10, 31, 32, 33, 64, 100, 255, 256, 257, 300} }
        \cup {undefined, string("64"), string("")}

\* ToBoolean: undefined, 0 and the empty string are falsy.
truthy(v) ==
    \/ v.t = "number" /\ v.n # 0
    \/ v.t = "string" /\ v.s # ""

\* req.body?.length || 64
requestedLength(v) == IF truthy(v) THEN v ELSE number(JwtDefaultBytes)

HexChar == << "0", "1", "2", "3", "4", "5", "6", "7", "8", "9",
              "a", "b", "c", "d", "e", "f" >>

\* Buffer.toString('hex'): two characters for every byte.
toHex(bytes) ==
    [i \in 1..(2 * Len(bytes)) |->
        IF i % 2 = 1 THEN HexChar[(bytes[(i + 1) \div 2] \div 16) + 1]
        ELSE HexChar[(bytes[i \div 2] % 16) + 1]]

\* crypto.randomBytes(size): the bytes of a run all have one of these values.
RandomByteValues == { 17 * k : k \in 0..15 }

randomBytes(size, b) == [i \in 1..size |-> b]

GenerateJwtSecret(v, b) ==
    LET length == requestedLength(v)
        secret == toHex(randomBytes(length.n, b))
    IN  /\ resp' = IF length.t # "number" \/ length.n < JwtMinBytes \/ length.n > JwtMaxBytes
                   THEN Response("jwtSecret", [length |-> v], 400,
                                 "Length must be a number between 32 and 256",
                                 NoToken, NoUser)
                   ELSE Response("jwtSecret", [length |-> v], 200, "", NoToken,
                                 [id |-> 0, secret |-> secret, length |-> Len(secret)])
        /\ UNCHANGED << idVars, caseVars, pending, result, codeVars >>

\* ------------------------------------------------------------------- Init
Init ==
    /\ jwtSecretEnv \in SecretValues
    /\ coll = [r \in Roles |-> {}]
    /\ nextId = 1
    /\ pending = [p \in Clients |-> Idle]
    /\ ledger = << >>
    /\ now = 0
    /\ ticks = 0
    /\ sends = 0
    /\ tokens = {}
    /\ lastSet = [i \in 1..MaxUsers |-> Absent]
    /\ verified = {}
    /\ sendLog = << >>
    /\ issued = {}
    /\ spent = {}
    /\ complaints = {}
    /\ nextCid = 1
    /\ deleted = {}
    /\ result = [p \in Clients |-> NoResult]
    /\ resp = Response("none", NoResult, 0, "", NoToken, NoUser)

\* ------------------------------------------------- the identity subsystem
\* Every request runs to its response before the next one starts.
Next ==
    \/ CreateAdmin
    \/ \E body \in SignupBodies : Signup("c1", body)
    \/ \E u \in RawUsernames, w \in Passwords, r \in RawRoles : Login(u, w, r)
    \/ \E e \in RawEmails \cup {"not-an-email"}, w \in Passwords : AdminLogin(e, w)
    \/ \E t \in Presentable : Me(t)
    \/ \E t \in Presentable, u \in Patches : UpdateProfile(t, u)
    \/ \E t \in Presentable, i \in 1..MaxUsers, u \in Patches : UpdateUser(t, i, u)
    \/ \E t \in Presentable, c \in Passwords, n \in RawPasswords :
          ChangePassword(t, c, n)

Spec == Init /\ [][Next]_vars

\* Two signups in flight.  The password plays no part in the race, so one
\* valid password is enough.
RaceBodies == { body \in SignupBodies : body.password # AdminPassword }

NextRace ==
    \/ \E p \in Clients, body \in RaceBodies : SignupCheck(p, body)
    \/ \E p \in Clients : SignupCreate(p)

SpecRace == Init /\ [][NextRace]_vars

\* The admin login flow, one request at a time: a request gets its response
\* before the next one starts, while the clock and the TTL monitor run on.
SeqClients == {"c1"}

NextCodeSeq ==
    \/ CreateAdmin
    \/ \E p \in SeqClients, e \in CodeEmails : SendCodeStart(p, e)
    \/ \E p \in SeqClients : SendCodeDeleteMany(p)
    \/ \E p \in SeqClients : SendCodeInsert(p)
    \/ \E p \in SeqClients : SendCodeRespond(p)
    \/ \E p \in SeqClients, e \in CodeEmails, c \in Codes : VerifyCodeFind(p, e, c)
    \/ \E p \in SeqClients : VerifyCodeDelete(p)
    \/ Tick
    \/ TtlMonitor
    \/ \E w \in Passwords : AdminLogin(AdminEmail, w)
    \/ \E w \in Passwords : Login(AdminUsername, w, "admin")

SpecCodeSeq == Init /\ [][NextCodeSeq]_vars

\* The same flow with two clients whose requests interleave at every await.
NextCode ==
    \/ CreateAdmin
    \/ \E p \in Clients, e \in CodeEmails : SendCodeStart(p, e)
    \/ \E p \in Clients : SendCodeDeleteMany(p)
    \/ \E p \in Clients : SendCodeInsert(p)
    \/ \E p \in Clients : SendCodeRespond(p)
    \/ \E p \in Clients, e \in CodeEmails, c \in Codes : VerifyCodeFind(p, e, c)
    \/ \E p \in Clients : VerifyCodeDelete(p)
    \/ Tick
    \/ TtlMonitor

SpecCode == Init /\ [][NextCode]_vars

\* Accounts and their complaints: signups, deletions and complaint creations
\* of two clients, interleaved at every await.
CascadeBodies ==
    { [username |-> "amy", email |-> "amy@x.com", password |-> "secret2",
       role |-> "student"],
      [username |-> "sahil", email |-> AdminEmail, password |-> "secret2",
       role |-> "faculty"],
      [username |-> "sahil", email |-> AdminEmail, password |-> "secret2",
       role |-> "admin"] }

NextCascade ==
    \/ \E p \in Clients, body \in CascadeBodies : Signup(p, body)
    \/ \E t \in Presentable : Me(t)
    \/ \E p \in Clients, t \in Presentable, i \in 1..MaxUsers : DeleteUserStart(p, t, i)
    \/ \E p \in Clients : DeleteUserComplaints(p)
    \/ \E p \in Clients : DeleteUserIdentity(p)
    \/ \E p \in Clients, t \in Presentable : CreateComplaintStart(p, t)
    \/ \E p \in Clients : CreateComplaintSave(p)

SpecCascade == Init /\ [][NextCascade]_vars

\* Two students and a faculty member, and the complaints routes run one at a
\* time.
ComplaintBodies ==
    { [username |-> "amy", email |-> "amy@x.com", password |-> "secret2",
       role |-> "student"],
      [username |-> "sahil", email |-> AdminEmail, password |-> "secret2",
       role |-> "student"],
      [username |-> "sahil", email |-> AdminEmail, password |-> "secret2",
       role |-> "faculty"] }

NextComplaints ==
    \/ \E body \in ComplaintBodies : Signup("c1", body)
    \/ \E t \in Presentable : CreateComplaintStart("c1", t)
    \/ CreateComplaintSave("c1")
    \/ \E t \in Presentable : ListComplaints(t)
    \/ \E t \in Presentable, c \in 1..MaxComplaints : GetComplaint(t, c)
    \/ \E t \in Presentable, c \in 1..MaxComplaints, title \in Titles :
          UpdateComplaint(t, c, title)
    \/ \E t \in Presentable, c \in 1..MaxComplaints : DeleteComplaint(t, c)
    \/ \E t \in Presentable, c \in 1..MaxComplaints : MarkComplaintRead(t, c)

SpecComplaints == Init /\ [][NextComplaints]_vars

\* The secret generator, which reads and writes no state of the server.
NextUtils ==
    \E v \in JwtLengths, b \in RandomByteValues : GenerateJwtSecret(v, b)

SpecUtils == Init /\ [][NextUtils]_vars

\* The routes that answer with an identity, run one at a time.
NextRead ==
    \/ \E body \in CascadeBodies : Signup("c1", body)
    \/ \E u \in {"amy", "sahil"}, w \in Passwords, r \in Roles : Login(u, w, r)
    \/ \E w \in Passwords : AdminLogin(AdminEmail, w)
    \/ \E t \in Presentable : Me(t)
    \/ \E t \in Presentable, u \in Patches : UpdateProfile(t, u)
    \/ \E t \in Presentable, i \in 1..MaxUsers, u \in Patches : UpdateUser(t, i, u)
    \/ \E t \in Presentable, i \in 1..MaxUsers : GetUser(t, i)
    \/ \E t \in Presentable, r \in Roles \cup {Absent} : ListUsers(t, r)

SpecRead == Init /\ [][NextRead]_vars

\* The code flow of one client next to signups of students and faculty, whose
\* emails are then held outside the Admin collection.
GuardBodies == { body \in CascadeBodies : body.role # "admin" }

NextGuard ==
    \/ CreateAdmin
    \/ \E body \in GuardBodies : Signup("c1", body)
    \/ \E p \in SeqClients, e \in CodeEmails : SendCodeStart(p, e)
    \/ \E p \in SeqClients : SendCodeDeleteMany(p)
    \/ \E p \in SeqClients : SendCodeInsert(p)
    \/ \E p \in SeqClients : SendCodeRespond(p)
    \/ \E p \in SeqClients, e \in CodeEmails, c \in Codes : VerifyCodeFind(p, e, c)
    \/ \E p \in SeqClients : VerifyCodeDelete(p)

SpecGuard == Init /\ [][NextGuard]_vars

\* ================================================================= claims

\* C1: after any sequence of signup, profile update, user update and
\* change-password, the stored credential of every identity is the hash of the
\* plaintext last set for it, never the plaintext, and comparePassword accepts
\* exactly that plaintext.
C1_CredentialIsHashOfLastSet ==
    \A d \in AllDocs :
        /\ d.password # lastSet[d.id]
        /\ \A w \in RawPasswords : comparePassword(d, w) <=> (w = lastSet[d.id])

\* C2: when two signup requests with the same lowercased email run
\* concurrently, exactly one creates an identity and the other fails with a
\* duplicate error.
C2_RacingSignupsOneSucceeds ==
    \A p \in Clients : \A q \in Clients \ {p} :
        ( /\ pending[p] = Idle /\ pending[q] = Idle
          /\ result[p].op = "signup" /\ result[q].op = "signup"
          /\ result[p].raced /\ result[q].raced
          /\ result[p].email = result[q].email )
        => \/ result[p].outcome = "created" /\ result[q].outcome = "duplicate"
           \/ result[p].outcome = "duplicate" /\ result[q].outcome = "created"

\* C3: a login endpoint answers with a token of role admin only if a
\* verify-code request for that administrator's email has succeeded before.
C3_AdminTokenRequiresVerification ==
    ( /\ resp.op \in {"adminLogin", "login"}
      /\ resp.status = 200
      /\ resp.token.role = "admin" )
    => resp.user.email \in verified

\* C4: a verify-code request that repeats the email and code of a successful
\* one, with no send-code for that email begun since, fails with NotFound.
C4_ReplayedVerifyNotFound ==
    (resp.op = "verifyCode" /\ resp.req.replay) => resp.error = MsgNotFound

\* Every record stored for the email had expired when the request was made.
AllExpiredAt(email, t) ==
    \A i \in issued : i.email = email => t > i.expiresAt

\* The request carries a code that was stored for its email, and is made
\* after expiresAt.
VerifyAfterExpiry ==
    /\ resp.op = "verifyCode"
    /\ resp.error # "validation"
    /\ \E i \in issued : i.email = resp.req.email /\ i.code = resp.req.code
    /\ AllExpiredAt(resp.req.email, resp.req.at)

sendsFor(email) == SelectSeq(sendLog, LAMBDA x : x.email = email)

\* The last response answers a verify-code request that carries the code of
\* the first of the last two completed send-code requests for its email.
VerifyOfReplacedCode ==
    /\ resp.op = "verifyCode"
    /\ resp.error # "validation"
    /\ Len(sendsFor(resp.req.email)) >= 2
    /\ sendsFor(resp.req.email)[Len(sendsFor(resp.req.email)) - 1].code = resp.req.code

\* The code of the last completed send-code request for the email of the
\* last response.
LatestCode == sendsFor(resp.req.email)[Len(sendsFor(resp.req.email))].code

\* C6 as stated: after two successive send-code requests for an email,
\* verify-code with the code of the first fails with Mismatch or NotFound.
C6_FirstCodeMismatchOrNotFound ==
    VerifyOfReplacedCode => resp.error \in {MsgMismatch, MsgNotFound}

\* C6: after two successive send-code requests for an email that drew
\* different codes, verify-code with the code of the first never succeeds: it
\* fails with Mismatch, NotFound or Expired.
C6_FirstCodeNeverSucceeds ==
    (VerifyOfReplacedCode /\ LatestCode # resp.req.code)
    => resp.error \in {MsgMismatch, MsgNotFound, MsgExpired}

\* The first code is refused as a mismatch while the second is in the ledger.
C6_Witness ==
    /\ VerifyOfReplacedCode
    /\ LatestCode # resp.req.code
    /\ resp.error = MsgMismatch
    /\ Len(ledger) = 1

\* C7: with requests executed one at a time, the ledger holds at most one
\* record per lowercased email.
C7_OneRecordPerEmail ==
    \A i \in 1..Len(ledger) : \A j \in 1..Len(ledger) :
        ledger[i].email = ledger[j].email => i = j

\* A second code was stored for an email whose first code was neither used
\* nor expired, and only the second is in the ledger.
C7_Witness ==
    /\ Len(sendsFor(AdminEmail)) = 2
    /\ sendLog[1].code # sendLog[2].code
    /\ AdminEmail \notin verified
    /\ \A i \in issued : now <= i.expiresAt
    /\ Len(ledger) = 1
    /\ ledger[1].code = sendLog[2].code

\* C8: POST /auth/signup never creates an identity in the Admin variant.
C8_SignupNeverCreatesAdmin ==
    (resp.op = "signup" /\ resp.status = 201) => resp.user.role # "admin"

\* C9: for every role and every identity stored in that role's variant, the
\* token generateToken makes for it, presented to authenticate at once, attaches
\* an identity with the same id and role and without the credential; GET /me
\* answers with such an identity.
C9_TokenRoundTrip ==
    /\ \A r \in Roles : \A d \in coll[r] :
          LET auth == authenticate(generateToken(d.id, r)) IN
          /\ auth.status = 200
          /\ auth.user.id = d.id
          /\ auth.user.role = r
          /\ "password" \notin DOMAIN auth.user
    /\ (resp.op = "me" /\ resp.status = 200) =>
          /\ "password" \notin DOMAIN resp.user
          /\ \E d \in AllDocs : StripPassword(d) = resp.user

\* A token of an administrator, signed with the configured secret, was accepted.
C9_Witness ==
    /\ resp.op = "me"
    /\ resp.status = 200
    /\ resp.user.role = "admin"
    /\ jwtSecretEnv # Absent
    /\ generateToken(resp.user.id, "admin") \in tokens

\* C10: POST /auth/login with role r consults only variant r: for a username
\* stored only in another variant the answer is 401 invalid credentials whatever
\* the password, and no token is issued.
C10_LoginConsultsOnlyRoleVariant ==
    /\ \A u \in RawUsernames, w \in RawPasswords, r \in Roles :
          findOneByUsername(r, ToLower(u)) = NoDoc =>
              /\ LoginResponse(u, w, r).status = 401
              /\ LoginResponse(u, w, r).error = "Invalid credentials"
              /\ LoginResponse(u, w, r).token = NoToken
    /\ (resp.op = "login" /\ resp.status = 200) =>
          /\ resp.user.role = resp.req.role
          /\ resp.token.role = resp.req.role
          /\ resp.user \in { StripPassword(d) : d \in coll[resp.req.role] }

\* A faculty login was refused for a username that a student holds.
C10_Witness ==
    /\ resp.op = "login"
    /\ resp.status = 401
    /\ resp.req.role = "faculty"
    /\ findOneByUsername("student", resp.req.username) # NoDoc
    /\ findOneByUsername("faculty", resp.req.username) = NoDoc
    /\ \E w \in Passwords :
          comparePassword(findOneByUsername("student", resp.req.username), w)

\* The username of the body is held by an identity of some variant, and by
\* none of the variant the body asks for.
UsernameHeldElsewhere(body) ==
    /\ ValidSignup(body)
    /\ findOneByUsername(TargetCollection(body.role), ToLower(body.username)) = NoDoc
    /\ \E r \in Roles : findOneByUsername(r, ToLower(body.username)) # NoDoc

VerifyAnsweredAtOnce ==
    ( /\ pending["c1"] = Idle
      /\ pending'["c1"] = Idle
      /\ resp' # resp
      /\ resp'.op = "verifyCode"
      /\ resp'.error # "validation" )
    => LET stored == findOne(ledger, resp'.req.email) IN
       /\ ledger' = ledger
       /\ resp'.status = 400
       /\ IF stored = NoRecord
          THEN resp'.error = MsgNotFound
          ELSE /\ ~(now > stored.expiresAt)
               /\ stored.code # resp'.req.code
               /\ resp'.error = MsgMismatch

\* A verify-code request goes on to its deleteOne: the record exists, and
\* either it has expired (whatever the submitted code is) or it has not and
\* the submitted code is the stored one.
VerifyGoesOnToDelete ==
    (pending["c1"] = Idle /\ pending'["c1"].op = "verifyCode")
    => LET req == pending'["c1"].req
           stored == findOne(ledger, req.email)
       IN  /\ stored # NoRecord
           /\ ledger' = ledger
           /\ pending'["c1"].expired <=> (now > stored.expiresAt)
           /\ ~pending'["c1"].expired => stored.code = req.code

\* The deleteOne and the answer after it: the record of the email is gone, and
\* the answer is Expired for an expired record and success otherwise.
VerifyDeletesAndAnswers ==
    (pending["c1"].op = "verifyCode" /\ pending'["c1"] = Idle)
    => /\ matching(ledger', pending["c1"].req.email) = {}
       /\ resp'.op = "verifyCode"
       /\ resp'.req = pending["c1"].req
       /\ IF pending["c1"].expired
          THEN resp'.status = 400 /\ resp'.error = MsgExpired
          ELSE resp'.status = 200

\* C12: verify-code checks existence, then expiry, then the code, and exactly
\* one outcome applies: NotFound without a record; Expired, with the record
\* deleted, when now > expiresAt, even for a wrong code; Mismatch for a code
\* that differs from the stored one; otherwise success, with the record
\* deleted.
C12_VerifyOutcomeOrder ==
    [][VerifyAnsweredAtOnce /\ VerifyGoesOnToDelete /\ VerifyDeletesAndAnswers]_vars

\* A code that was never issued for the email is answered Expired, not
\* Mismatch, and the expired record is gone.
C12_Witness ==
    /\ pending["c1"] = Idle
    /\ resp.op = "verifyCode"
    /\ resp.error = MsgExpired
    /\ \A i \in issued : i.email = resp.req.email => i.code # resp.req.code
    /\ \E i \in issued : i.email = resp.req.email
    /\ ledger = << >>

\* C13: a token of a deleted identity is answered 401 by authenticate from the
\* deletion on, and so is a token whose role names a variant that does not
\* hold its id, wherever else the id is stored.
C13_StaleTokenRejected ==
    /\ \A r \in Roles, i \in 1..MaxUsers :
          findById(r, i) = NoDoc
          => authenticate(generateToken(i, r)) =
                [status |-> 401, error |-> "User not found", user |-> NoUser]
    /\ \A t \in tokens : t.userId \in deleted => authenticate(t).status = 401

\* The token of a deleted identity was presented and refused, while another
\* identity is still stored.
C13_Witness ==
    /\ resp.op = "me"
    /\ resp.status = 401
    /\ resp.error = "User not found"
    /\ \E t \in tokens : t.userId \in deleted
    /\ AllDocs # {}

\* C18: once DELETE /users/:id of a student has been answered, no complaint
\* of that student is in the store, whatever ran concurrently.
C18_NoComplaintOfDeletedStudent ==
    \A c \in complaints : c.studentId \notin deleted

\* Every identity stays in its collection with its role.
RoleStable ==
    \A r \in Roles : \A d \in coll[r] :
        /\ d.role = r
        /\ \A r2 \in Roles : \A d2 \in coll'[r2] :
              d2.id = d.id => (r2 = r /\ d2.role = d.role)

\* An update whose body carries a role is refused and writes nothing.
RolePatchRefused ==
    ( /\ resp' # resp
      /\ resp'.op \in {"profile", "userUpdate"}
      /\ resp'.req.role # Absent )
    => (resp'.status >= 400 /\ coll' = coll)

C15_ProfileKeepsCredential ==
    [][ (resp' # resp /\ resp'.op = "profile")
        => \A d \in AllDocs : \A r \in Roles : \A d2 \in coll'[r] :
              d2.id = d.id => d2.password = d.password ]_vars

\* What the caller receives: the status and the body.
Received(r) ==
    [status |-> r.status, error |-> r.error, token |-> r.token, user |-> r.user]

ChangePasswordAnswered ==
    /\ resp' # resp
    /\ resp'.op = "changePassword"
    /\ resp'.req.id # 0
    /\ findUserById(resp'.req.id).user # NoDoc

\* The current password of an identity is the one it set last.
WrongCurrentRefused ==
    (ChangePasswordAnswered /\ resp'.req.current # lastSet[resp'.req.id])
    => /\ resp'.status \in {400, 401}
       /\ coll' = coll

CorrectCurrentReplaces ==
    (ChangePasswordAnswered /\ resp'.req.current = lastSet[resp'.req.id])
    => /\ resp'.status \in {200, 400}
       /\ resp'.status = 400 => coll' = coll
       /\ resp'.status = 200 =>
            \E r \in Roles : \E d \in coll'[r] :
               /\ d.id = resp'.req.id
               /\ comparePassword(d, lastSet'[d.id])
               /\ lastSet'[d.id] # lastSet[d.id] => ~comparePassword(d, lastSet[d.id])

\* C19: change-password with a wrong current password is refused (401 once
\* the body is valid) and leaves every credential as it was; with the correct
\* current password and a valid new one it answers 200 and afterwards the new
\* password is accepted at login and the old one is not.
C19_ChangePasswordChecksCurrent ==
    [][WrongCurrentRefused /\ CorrectCurrentReplaces]_vars

\* A token signed with the key every reader of the source knows.
FallbackTokens ==
    [userId : 1..MaxUsers, role : Roles, key : {"fallback-secret"}]

\* C20: with no signing secret configured no token is issued, and authenticate
\* accepts no token signed with the fallback key.
C20_NoFallbackKey ==
    /\ jwtSecretEnv = Absent => tokens = {}
    /\ \A t \in tokens : t.key # "fallback-secret"
    /\ \A t \in FallbackTokens : authenticate(t).status # 200

\* A send-code request for an email that no admin holds is answered 404 and
\* touches neither the ledger nor the mailer nor the request in flight.
NoAdminAnswered404 ==
    ( /\ resp' # resp
      /\ resp'.op = "sendCode"
      /\ findOneByEmail("admin", resp'.req.email) = NoDoc )
    => /\ resp'.status = 404
       /\ resp'.error = "Admin account not found"
       /\ ledger' = ledger
       /\ sendLog' = sendLog
       /\ issued' = issued
       /\ pending' = pending

\* A send-code request goes on to its writes only for an email of an admin.
OnlyAdminEmailProceeds ==
    \A p \in Clients :
        (pending[p] = Idle /\ pending'[p] # Idle /\ pending'[p].op = "sendCode")
        => findOneByEmail("admin", pending'[p].record.email) # NoDoc

\* C16: send-code for an email that belongs to no identity of the Admin
\* collection, also one that belongs to a student or a faculty member, answers
\* 404 admin-not-found, creates, replaces and deletes no ledger record and
\* sends no mail.
C16_SendCodeAdminOnly == [][NoAdminAnswered404 /\ OnlyAdminEmailProceeds]_vars

\* A send-code request for the email of a student or a faculty member was
\* answered 404 while a record of an admin's code is in the ledger.
C16_Witness ==
    /\ resp.op = "sendCode"
    /\ resp.status = 404
    /\ \E r \in {"student", "faculty"} : findOneByEmail(r, resp.req.email) # NoDoc
    /\ findOneByEmail("admin", resp.req.email) = NoDoc
    /\ ledger # << >>

\* C21: the send-code handler is never suspended on the delivery of the mail
\* with its response still to come, so that the response is not ordered after
\* the end of the delivery attempt.
C21_ResponseNeverAwaitsDelivery ==
    \A p \in Clients : ~(pending[p].op = "sendCode" /\ pending[p].pc = "mail")

\* Whatever the transport did, the handler answers 200 with the success
\* message, writes nothing to the ledger, and the record it stored is there
\* unless its time has run out.
AnswersAfterAnyOutcome ==
    \A p \in Clients :
        (pending[p].op = "sendCode" /\ pending[p].pc = "mail" /\ pending'[p] = Idle)
        => /\ resp'.op = "sendCode"
           /\ resp'.status = 200
           /\ resp'.error = "Verification code sent successfully"
           /\ ledger' = ledger
           /\ pending[p].record.expiresAt > now
                => \E i \in 1..Len(ledger') : ledger'[i] = pending[p].record

\* A verify-code request is not refused at once while the ledger holds a
\* record with its email and its code whose time has not run out.
StoredCodeNotRefused ==
    (resp' # resp /\ resp'.op = "verifyCode" /\ resp'.status # 200 /\ pending' = pending)
    => ~ \E i \in 1..Len(ledger) :
            /\ ledger[i].email = resp'.req.email
            /\ ledger[i].code = resp'.req.code
            /\ now <= ledger[i].expiresAt

\* C22: when the delivery of the mail fails after the code has been stored,
\* send-code still answers 200 with the success message, the stored code stays
\* in the ledger, and a verify-code with it before it expires is not refused.
C22_MailFailureNotSurfaced == [][AnswersAfterAnyOutcome /\ StoredCodeNotRefused]_vars

\* A code whose mail failed has been verified.
C22_Witness ==
    /\ resp.op = "verifyCode"
    /\ resp.status = 200
    /\ sendsFor(resp.req.email) # << >>
    /\ LET s == sendsFor(resp.req.email) IN
         /\ s[Len(s)].mail = "failed"
         /\ s[Len(s)].code = resp.req.code
         /\ \A i \in 1..Len(s) : s[i].mail = "failed"

\* The draws the claim is checked on: those of the runs, the least and the
\* greatest.
DrawsChecked == RandomDraws \cup {0, RandomResolution - 1}

\* C23: every issued code is a string of exactly 6 decimal digits, and the
\* codes that can be drawn include codes that begin with a zero.
C23_SixDigitsWithLeadingZeros ==
    /\ \A i \in issued : Len(i.code) = 6
    /\ \A draw \in DrawsChecked :
          /\ Len(digits(codeNumber(draw))) = 6
          /\ Len(generateCode(draw)) = 6
    /\ \E draw \in DrawsChecked : digits(codeNumber(draw))[1] = "0"

\* The credentials in the store and those the identities set.
Credentials ==
    { d.password : d \in AllDocs } \cup { lastSet[i] : i \in 1..MaxUsers }

\* An identity as a response carries it has no password field and no field
\* whose value is a credential.
NoCredentialIn(u) ==
    /\ "password" \notin DOMAIN u
    /\ \A f \in (DOMAIN u) \cap {"username", "email", "role"} : u[f] \notin Credentials

\* C24: no response of signup, login, admin login, GET /me, profile update,
\* user update, GET /users/:id or GET /users carries the credential of an
\* identity, hashed or plain.
C24_NoCredentialInResponse ==
    /\ NoCredentialIn(resp.user)
    /\ resp.error \notin Credentials \ {Absent}
    /\ "users" \in DOMAIN resp.user => \A u \in resp.user.users : NoCredentialIn(u)

\* A read of an identity whose stored credential is the plain password of a
\* profile update was answered with the identity.
C24_Witness ==
    /\ resp.op \in {"user", "userList"}
    /\ resp.status = 200
    /\ \E d \in AllDocs :
          /\ d.password = "secret2"
          /\ \/ resp.user.id = d.id
             \/ "users" \in DOMAIN resp.user /\ \E u \in resp.user.users : u.id = d.id

\* C25: generate-jwt-secret answers 400 for every requested length that is
\* not a number within 32..256, and otherwise 200 with a hex secret whose
\* reported length is twice the requested number of bytes, 64 bytes when no
\* length is given.
C25_JwtSecretLength ==
    resp.op = "jwtSecret" =>
        LET v == resp.req.length IN
        IF v.t = "undefined"
        THEN /\ resp.status = 200
             /\ resp.user.length = 2 * JwtDefaultBytes
             /\ Len(resp.user.secret) = resp.user.length
        ELSE IF v.t = "number" /\ v.n >= JwtMinBytes /\ v.n <= JwtMaxBytes
        THEN /\ resp.status = 200
             /\ resp.user.length = 2 * v.n
             /\ Len(resp.user.secret) = resp.user.length
        ELSE resp.status = 400

\* C26: of the verify-code requests that carry the code stored for an email,
\* at most one reports success: no request succeeds with an email and a code
\* that another request has succeeded with since the code was issued.
C26_CodeVerifiedOnce ==
    [][ \A p \in Clients :
          ( /\ pending[p].op = "verifyCode"
            /\ ~pending[p].expired
            /\ pending'[p] = Idle )
          => << pending[p].req.email, pending[p].req.code >> \notin spent ]_vars

\* When an insert commits, the ledger holds for its email the record of that
\* insert and no other.
InsertReplaces ==
    \A p \in Clients :
        (pending[p].op = "sendCode" /\ pending[p].pc = "insert" /\ pending'[p] # pending[p])
        => \A i \in matching(ledger', pending[p].record.email) :
              ledger'[i] = pending[p].record

\* When the last of the send-code requests in flight for an email completes,
\* the ledger holds at most one record for the email.
CompletedLeavesOne ==
    \A p \in Clients :
        ( /\ pending[p].op = "sendCode"
          /\ pending'[p] = Idle
          /\ \A q \in Clients \ {p} : pending[q].op # "sendCode" )
        => Cardinality(matching(ledger', pending[p].record.email)) <= 1

\* C27: when two send-code requests for one admin email race, the insert that
\* commits last wins: once both have completed the ledger holds one record
\* for the email, that of the last insert.
C27_LastInsertWins == [][InsertReplaces /\ CompletedLeavesOne]_vars

\* A verify-code with a code other than the stored one, while the stored
\* record has not expired, is answered Mismatch and writes nothing.
MismatchWritesNothing ==
    ( /\ resp' # resp
      /\ resp'.op = "verifyCode"
      /\ resp'.status # 200
      /\ findOne(ledger, resp'.req.email) # NoRecord
      /\ findOne(ledger, resp'.req.email).code # resp'.req.code
      /\ resp'.req.code # ""
      /\ now <= findOne(ledger, resp'.req.email).expiresAt )
    => /\ resp'.error = MsgMismatch
       /\ ledger' = ledger

\* Every Mismatch leaves the ledger as it was.
MismatchKeepsLedger ==
    (resp' # resp /\ resp'.op = "verifyCode" /\ resp'.error = MsgMismatch)
    => ledger' = ledger

\* The request that follows a Mismatch with the stored code, before the
\* record expires, goes on to its delete and its 200.
StoredCodeAcceptedAfterMismatch ==
    \A p \in Clients :
        ( /\ resp.op = "verifyCode"
          /\ resp.error = MsgMismatch
          /\ pending[p] = Idle
          /\ pending'[p] # Idle
          /\ pending'[p].op = "verifyCode"
          /\ findOne(ledger, pending'[p].req.email).code = pending'[p].req.code
          /\ now <= findOne(ledger, pending'[p].req.email).expiresAt )
        => ~pending'[p].expired

\* C29: a verify-code that fails with Mismatch leaves the record of the email
\* as it was, and a verify-code with the stored code made afterwards, before
\* expiresAt, still succeeds.
C29_MismatchLeavesRecord ==
    [][MismatchWritesNothing /\ MismatchKeepsLedger /\ StoredCodeAcceptedAfterMismatch]_vars

\* The request that followed a Mismatch for the email carried the stored
\* code, was found good and is about to delete the record and answer 200.
C29_Witness ==
    /\ resp.op = "verifyCode"
    /\ resp.error = MsgMismatch
    /\ \E p \in Clients :
          /\ pending[p].op = "verifyCode"
          /\ ~pending[p].expired
          /\ pending[p].req.email = resp.req.email
          /\ pending[p].req.at >= resp.req.at
          /\ findOne(ledger, resp.req.email).code = pending[p].req.code

ComplaintOps ==
    {"complaintList", "complaintGet", "complaintUpdate", "complaintDelete",
     "complaintRead"}

\* The complaints a step has added, removed or rewritten.
Touched == (complaints \ complaints') \cup (complaints' \ complaints)

\* A response to a student carries complaints of that student only.
StudentReadsOwn ==
    (resp'.op \in ComplaintOps /\ resp'.req.role = "student")
    => \A c \in resp'.user.complaints : c.studentId = resp'.req.by

\* A request of a student changes complaints of that student only.
StudentWritesOwn ==
    (resp'.op \in ComplaintOps /\ resp'.req.role = "student")
    => \A c \in Touched : c.studentId = resp'.req.by

\* C30: a request authenticated as a student never returns, modifies or
\* deletes a complaint of another student, through list, get, update, delete
\* or mark-as-read.
C30_StudentsOwnComplaintsOnly == [][StudentReadsOwn /\ StudentWritesOwn]_vars

\* No two identities, of whichever variants, have the same lowercased email.
EmailsUnique ==
    \A d \in AllDocs : \A o \in AllDocs :
        ToLower(d.email) = ToLower(o.email) => d.id = o.id

\* A signup, a profile update or a user update has been answered.
IdentityWriteAnswered ==
    resp' # resp /\ resp'.op \in {"signup", "profile", "userUpdate"}

\* C28: signup, PUT /profile and PUT /users/:id, run one at a time, keep the
\* lowercased emails of all identities distinct: a signup with the email of an
\* identity of another variant is refused, and no update gives an identity an
\* email that an identity of another variant holds.
C28_EmailUniqueAcrossVariants ==
    [][(IdentityWriteAnswered /\ EmailsUnique) => EmailsUnique']_vars

====
